---- MODULE Spec2Model ----
(***************************************************************************)
(* FilterKeyHandler of gq.cc: a SAX event sink that sits between the       *)
(* rapidjson Reader and an output handler and swallows every object        *)
(* member whose key equals keyString_, renumbering the member count of     *)
(* the enclosing object.                                                   *)
(*                                                                         *)
(* One action per Reader callback.  Each action is the whole callback:     *)
(* the Reader emits the token, the handler updates filterValueDepth_ and   *)
(* filteredKeyCount_, the output handler (if called) answers, and the      *)
(* Reader stops on a false return.                                         *)
(***************************************************************************)
EXTENDS Integers, Sequences, FiniteSets, TLC

\* ------------------------------------------------------------------ bounds
MaxLen == 9        \* events the Reader emits in one pass
MaxDepth == 3      \* containers open at once in the input
MaxScalars == 2    \* scalar tokens in the input

\* --------------------------------------------------------------- constants
\* SizeType and filterValueDepth_ are 32-bit unsigned; a pass of at most
\* MaxLen events stays far below 2^32, so the counters are plain naturals.

\* string key("coordinates"), as bytes.
keyString_ == <<99, 111, 111, 114, 100, 105, 110, 97, 116, 101, 115>>
keyLength_ == Len(keyString_)

\* Member names the Reader may emit: the filter key itself and "coordinate",
\* which agrees with it on every byte it has and differs only in length.
Keys == {keyString_, SubSeq(keyString_, 1, 10)}

\* An event of the handler interface: the method (kind), its text span (str)
\* and its number (n: the int of Int, the count of EndObject / EndArray).
Ev(k, s, n) == [kind |-> k, str |-> s, n |-> n]

ScalarKinds ==
    {"Null", "Bool", "Int", "Uint", "Int64", "Uint64", "Double", "RawNumber", "String"}

\* Scalar tokens the Reader may emit: a number and a string whose bytes are
\* those of the filter key (a value, not a member name).
Tokens == {Ev("Int", <<>>, 1), Ev("String", keyString_, 0)}

IsStart(e) == e.kind \in {"StartObject", "StartArray"}
IsEnd(e) == e.kind \in {"EndObject", "EndArray"}
IsScalar(e) == e.kind \in ScalarKinds

VARIABLES
    input,              \* events the Reader has passed to the filter, in order
    pstack,             \* the Reader's open containers
    filterValueDepth_,  \* FilterKeyHandler::filterValueDepth_
    filteredKeyCount_,  \* FilterKeyHandler::filteredKeyCount_ (top is last)
    output,             \* calls made on outputHandler_, in order
    last,               \* the handler call just made: forwarded?, consumer's answer, return value
    rejected,           \* outputHandler_ has returned false
    parseResult_        \* FilterKeyReader::parseResult_ / the pass: "parsing", "ok", "terminated"

vars == <<input, pstack, filterValueDepth_, filteredKeyCount_, output, last,
          rejected, parseResult_>>

\* ---------------------------------------------------------------- handler
\* Every handler maps (filterValueDepth_, filteredKeyCount_, event, answer of
\* outputHandler_ if it is called) to the new fields, the call made on
\* outputHandler_ (fwd: empty or one event) and the return value.
Res(d, c, fwd, ret) == [depth |-> d, counts |-> c, fwd |-> fwd, ret |-> ret]

\* Faulty variant of EndValue: returns whether the suppression is over.
EndValueReportsReset(d) ==
    [depth |-> IF d = 1 THEN 0 ELSE d, ret |-> d <= 1]

\* Faulty variant of EndValue: never ends the suppression.
EndValueNoReset(d) == [depth |-> d, ret |-> TRUE]

\* bool EndValue(): resets the depth 1 -> 0, returns true.
EndValue(d) == [depth |-> IF d = 1 THEN 0 ELSE d, ret |-> TRUE]

\* Faulty variant of the scalar handlers: forwards without testing the depth.
ScalarAlwaysForwarded(d, c, e, ok) ==
    IF ok THEN Res(EndValue(d).depth, c, <<e>>, EndValue(d).ret)
    ELSE Res(d, c, <<e>>, FALSE)

\* Null .. String: `depth > 0 ? EndValue() : out.X(..) && EndValue()`.
Scalar(d, c, e, ok) ==
    IF d > 0
    THEN Res(EndValue(d).depth, c, <<>>, EndValue(d).ret)
    ELSE IF ok
         THEN Res(EndValue(d).depth, c, <<e>>, EndValue(d).ret)
         ELSE Res(d, c, <<e>>, FALSE)

\* Faulty variant of StartObject: drops the consumer's answer.
StartObjectIgnoresAnswer(d, c, e, ok) ==
    IF d > 0
    THEN Res(d + 1, c, <<>>, TRUE)
    ELSE Res(d, Append(c, 0), <<e>>, TRUE)

\* Faulty variant of StartObject: pushes a counter for a suppressed object too.
StartObjectAlwaysPushes(d, c, e, ok) ==
    IF d > 0
    THEN Res(d + 1, Append(c, 0), <<>>, TRUE)
    ELSE Res(d, Append(c, 0), <<e>>, ok)

StartObject(d, c, e, ok) ==
    IF d > 0
    THEN Res(d + 1, c, <<>>, TRUE)
    ELSE Res(d, Append(c, 0), <<e>>, ok)

\* Faulty variant of the key comparison: memcmp without the length test.
KeyMatchesNoLength(str, len) ==
    \A i \in 1..len : str[i] = keyString_[i]

\* Faulty variant of the key comparison: the memcmp result read as a boolean.
KeyMatchesInverted(str, len) ==
    /\ len = keyLength_
    /\ \E i \in 1..len : str[i] # keyString_[i]

\* len == keyLength_ && memcmp(str, keyString_, len) == 0
KeyMatches(str, len) ==
    /\ len = keyLength_
    /\ \A i \in 1..len : str[i] = keyString_[i]

\* Faulty variant of Key: forwards a member without counting it.
KeyUncounted(d, c, e, ok) ==
    IF d > 0
    THEN Res(d, c, <<>>, TRUE)
    ELSE IF KeyMatches(e.str, Len(e.str))
         THEN Res(1, c, <<>>, TRUE)
         ELSE Res(d, c, <<e>>, ok)

\* Faulty variant of Key: compares the key before testing the depth.
KeyRematch(d, c, e, ok) ==
    IF KeyMatches(e.str, Len(e.str))
    THEN Res(1, c, <<>>, TRUE)
    ELSE IF d > 0
         THEN Res(d, c, <<>>, TRUE)
         ELSE Res(d, [c EXCEPT ![Len(c)] = @ + 1], <<e>>, ok)

\* Faulty variant of Key: counts the member before comparing the key.
KeyCountsMatched(d, c, e, ok) ==
    IF d > 0
    THEN Res(d, c, <<>>, TRUE)
    ELSE IF KeyMatches(e.str, Len(e.str))
         THEN Res(1, [c EXCEPT ![Len(c)] = @ + 1], <<>>, TRUE)
         ELSE Res(d, [c EXCEPT ![Len(c)] = @ + 1], <<e>>, ok)

\* Faulty variant of Key: counts the member only once the consumer took it.
KeyUnwinds(d, c, e, ok) ==
    IF d > 0
    THEN Res(d, c, <<>>, TRUE)
    ELSE IF KeyMatches(e.str, Len(e.str))
         THEN Res(1, c, <<>>, TRUE)
         ELSE Res(d, IF ok THEN [c EXCEPT ![Len(c)] = @ + 1] ELSE c, <<e>>, ok)

Key(d, c, e, ok) ==
    IF d > 0
    THEN Res(d, c, <<>>, TRUE)
    ELSE IF KeyMatches(e.str, Len(e.str))
         THEN Res(1, c, <<>>, TRUE)
         ELSE Res(d, [c EXCEPT ![Len(c)] = @ + 1], <<e>>, ok)

\* Faulty variant of EndObject: forwards the Reader's member count.
EndObjectUpstreamCount(d, c, e, ok) ==
    IF d > 0
    THEN Res(EndValue(d - 1).depth, c, <<>>, EndValue(d - 1).ret)
    ELSE IF ok
         THEN Res(EndValue(d).depth, SubSeq(c, 1, Len(c) - 1), <<e>>, EndValue(d).ret)
         ELSE Res(d, SubSeq(c, 1, Len(c) - 1), <<e>>, FALSE)

\* Faulty variant of EndObject: a suppressed EndObject leaves the depth alone.
EndObjectNoDecrement(d, c, e, ok) ==
    IF d > 0
    THEN Res(EndValue(d).depth, c, <<>>, EndValue(d).ret)
    ELSE IF ok
         THEN Res(EndValue(d).depth, SubSeq(c, 1, Len(c) - 1),
                  <<Ev("EndObject", e.str, c[Len(c)])>>, EndValue(d).ret)
         ELSE Res(d, SubSeq(c, 1, Len(c) - 1),
                  <<Ev("EndObject", e.str, c[Len(c)])>>, FALSE)

EndObject(d, c, e, ok) ==
    IF d > 0
    THEN Res(EndValue(d - 1).depth, c, <<>>, EndValue(d - 1).ret)
    ELSE LET memberCount == c[Len(c)]
             popped == SubSeq(c, 1, Len(c) - 1)
             call == Ev("EndObject", e.str, memberCount)
         IN  IF ok
             THEN Res(EndValue(d).depth, popped, <<call>>, EndValue(d).ret)
             ELSE Res(d, popped, <<call>>, FALSE)

\* Faulty variant of StartArray: a suppressed StartArray leaves the depth alone.
StartArrayNoIncrement(d, c, e, ok) ==
    IF d > 0
    THEN Res(d, c, <<>>, TRUE)
    ELSE Res(d, c, <<e>>, ok)

StartArray(d, c, e, ok) ==
    IF d > 0
    THEN Res(d + 1, c, <<>>, TRUE)
    ELSE Res(d, c, <<e>>, ok)

\* Faulty variant of EndArray: a suppressed EndArray leaves the depth alone.
EndArrayNoDecrement(d, c, e, ok) ==
    IF d > 0
    THEN Res(EndValue(d).depth, c, <<>>, EndValue(d).ret)
    ELSE IF ok
         THEN Res(EndValue(d).depth, c, <<e>>, EndValue(d).ret)
         ELSE Res(d, c, <<e>>, FALSE)

\* Faulty variant of EndArray: forwards a count one too large.
EndArrayCountPlusOne(d, c, e, ok) ==
    IF d > 0
    THEN Res(EndValue(d - 1).depth, c, <<>>, EndValue(d - 1).ret)
    ELSE IF ok
         THEN Res(EndValue(d).depth, c, <<Ev(e.kind, e.str, e.n + 1)>>, EndValue(d).ret)
         ELSE Res(d, c, <<Ev(e.kind, e.str, e.n + 1)>>, FALSE)

EndArray(d, c, e, ok) ==
    IF d > 0
    THEN Res(EndValue(d - 1).depth, c, <<>>, EndValue(d - 1).ret)
    ELSE IF ok
         THEN Res(EndValue(d).depth, c, <<e>>, EndValue(d).ret)
         ELSE Res(d, c, <<e>>, FALSE)

\* The method of FilterKeyHandler the Reader calls for an event.
Handle(d, c, e, ok) ==
    CASE e.kind = "StartObject" -> StartObject(d, c, e, ok)
      [] e.kind = "Key"         -> Key(d, c, e, ok)
      [] e.kind = "EndObject"   -> EndObject(d, c, e, ok)
      [] e.kind = "StartArray"  -> StartArray(d, c, e, ok)
      [] e.kind = "EndArray"    -> EndArray(d, c, e, ok)
      [] OTHER                  -> Scalar(d, c, e, ok)

\* ----------------------------------------------------------------- Reader
\* The Reader's view of an open container: object or array, members or
\* elements completed so far, and (objects) whether a member name is due.
Frame(obj, n, key) == [obj |-> obj, n |-> n, key |-> key]

\* A value may start here: at the root of an empty document, as an array
\* element, or after a member name.
CanValue ==
    IF pstack = <<>> THEN input = <<>> ELSE ~pstack[Len(pstack)].key

\* The enclosing container after one value completed in it.
ValueDone(ps) ==
    IF ps = <<>> THEN ps
    ELSE [ps EXCEPT ![Len(ps)] = Frame(@.obj, @.n + 1, @.obj)]

NumScalars == Cardinality({i \in 1..Len(input) : IsScalar(input[i])})

\* FilterKeyReader::operator(): reader.Parse(is_, filter) calls the filter
\* for event e, and stops with a termination error on a false return.
Deliver(e, ps, ok) ==
    LET r == Handle(filterValueDepth_, filteredKeyCount_, e, ok) IN
    /\ parseResult_ = "parsing"
    /\ Len(input) < MaxLen
    /\ (r.fwd = <<>>) => ok
    /\ input' = Append(input, e)
    /\ filterValueDepth_' = r.depth
    /\ filteredKeyCount_' = r.counts
    /\ output' = output \o r.fwd
    /\ last' = [fwd |-> r.fwd # <<>>, ok |-> ok, ret |-> r.ret]
    /\ rejected' = (rejected \/ (r.fwd # <<>> /\ ~ok))
    /\ pstack' = ps
    /\ parseResult_' = IF ~r.ret THEN "terminated"
                       ELSE IF ps = <<>> THEN "ok"
                       ELSE "parsing"

Init ==
    /\ input = <<>>
    /\ pstack = <<>>
    /\ filterValueDepth_ = 0
    /\ filteredKeyCount_ = <<>>
    /\ output = <<>>
    /\ last = [fwd |-> FALSE, ok |-> TRUE, ret |-> TRUE]
    /\ rejected = FALSE
    /\ parseResult_ = "parsing"

ParseScalar ==
    \E tok \in Tokens, ok \in BOOLEAN :
        /\ CanValue
        /\ NumScalars < MaxScalars
        /\ Deliver(tok, ValueDone(pstack), ok)

ParseStartObject ==
    \E ok \in BOOLEAN :
        /\ CanValue
        /\ Len(pstack) < MaxDepth
        /\ Deliver(Ev("StartObject", <<>>, 0), Append(pstack, Frame(TRUE, 0, TRUE)), ok)

ParseKey ==
    \E k \in Keys, ok \in BOOLEAN :
        /\ pstack # <<>>
        /\ pstack[Len(pstack)].key
        /\ Deliver(Ev("Key", k, 0),
                   [pstack EXCEPT ![Len(pstack)] = Frame(TRUE, @.n, FALSE)], ok)

ParseEndObject ==
    \E ok \in BOOLEAN :
        /\ pstack # <<>>
        /\ pstack[Len(pstack)].key
        /\ Deliver(Ev("EndObject", <<>>, pstack[Len(pstack)].n),
                   ValueDone(SubSeq(pstack, 1, Len(pstack) - 1)), ok)

ParseStartArray ==
    \E ok \in BOOLEAN :
        /\ CanValue
        /\ Len(pstack) < MaxDepth
        /\ Deliver(Ev("StartArray", <<>>, 0), Append(pstack, Frame(FALSE, 0, FALSE)), ok)

ParseEndArray ==
    \E ok \in BOOLEAN :
        /\ pstack # <<>>
        /\ ~pstack[Len(pstack)].obj
        /\ Deliver(Ev("EndArray", <<>>, pstack[Len(pstack)].n),
                   ValueDone(SubSeq(pstack, 1, Len(pstack) - 1)), ok)

Next ==
    \/ ParseScalar
    \/ ParseStartObject
    \/ ParseKey
    \/ ParseEndObject
    \/ ParseStartArray
    \/ ParseEndArray

Spec == Init /\ [][Next]_vars

\* A fresh FilterKeyHandler run over a whole event sequence, its consumer
\* accepting every event: the calls it makes on the consumer.
RECURSIVE Pass(_, _, _, _, _)
Pass(s, i, d, c, out) ==
    IF i > Len(s) THEN out
    ELSE LET r == Handle(d, c, s[i], TRUE)
         IN  Pass(s, i + 1, r.depth, r.counts, out \o r.fwd)

Filter(s) == Pass(s, 1, 0, <<>>, <<>>)

\* ---------------------------------------------------------------- chaining
\* FilterKeyHandler is itself an OutputHandler: a sink constructed with
\* (keyString, keyLength) may wrap a sink constructed with another key.

\* The pairs of different filter keys among the member names the Reader
\* emits and "z", which no member has; each pair once.
ChainPairs ==
    {<<keyString_, SubSeq(keyString_, 1, 10)>>,
     <<keyString_, <<122>>>>,
     <<SubSeq(keyString_, 1, 10), <<122>>>>}

\* len == keyLength_ && memcmp(str, keyString_, len) == 0, for a sink
\* constructed with (ks, kl).
KeyMatchesWith(ks, kl, str, len) ==
    /\ len = kl
    /\ \A i \in 1..len : str[i] = ks[i]

\* Faulty variant of KeyWith: counts the member before comparing the key.
KeyWithCountsMatched(ks, kl, d, c, e, ok) ==
    IF d > 0
    THEN Res(d, c, <<>>, TRUE)
    ELSE IF KeyMatchesWith(ks, kl, e.str, Len(e.str))
         THEN Res(1, [c EXCEPT ![Len(c)] = @ + 1], <<>>, TRUE)
         ELSE Res(d, [c EXCEPT ![Len(c)] = @ + 1], <<e>>, ok)

\* FilterKeyHandler::Key of a sink constructed with (ks, kl).
KeyWith(ks, kl, d, c, e, ok) ==
    IF d > 0
    THEN Res(d, c, <<>>, TRUE)
    ELSE IF KeyMatchesWith(ks, kl, e.str, Len(e.str))
         THEN Res(1, c, <<>>, TRUE)
         ELSE Res(d, [c EXCEPT ![Len(c)] = @ + 1], <<e>>, ok)

\* The method a sink constructed with (ks, kl) runs for an event: only Key
\* reads the key.
HandleWith(ks, kl, d, c, e, ok) ==
    IF e.kind = "Key" THEN KeyWith(ks, kl, d, c, e, ok) ELSE Handle(d, c, e, ok)

\* A fresh sink for ka whose outputHandler_ is a fresh sink for kb, whose
\* consumer accepts every event, run over s[i..]: the calls made on that
\* consumer.  The outer sink's call on outputHandler_ is the inner sink's
\* handler, and the inner handler's return value is the answer it gets.
RECURSIVE ChainPass(_, _, _, _, _, _, _, _, _)
ChainPass(ka, kb, s, i, da, ca, db, cb, out) ==
    IF i > Len(s) THEN out
    ELSE LET taken == HandleWith(ka, Len(ka), da, ca, s[i], TRUE)
             inner == IF taken.fwd = <<>> THEN Res(db, cb, <<>>, TRUE)
                      ELSE HandleWith(kb, Len(kb), db, cb, taken.fwd[1], TRUE)
             outer == IF inner.ret THEN taken
                      ELSE HandleWith(ka, Len(ka), da, ca, s[i], FALSE)
         IN  ChainPass(ka, kb, s, i + 1, outer.depth, outer.counts,
                       inner.depth, inner.counts, out \o inner.fwd)

Chain(ka, kb, s) == ChainPass(ka, kb, s, 1, 0, <<>>, 0, <<>>, <<>>)

\* ------------------------------------------------- reference definitions
\* What the filter is meant to compute, stated on the event sequence alone
\* (no depth counter, no counter stack).

\* Containers open after the first i events of s.
Nesting(s, i) ==
    Cardinality({x \in 1..i : IsStart(s[x])}) - Cardinality({x \in 1..i : IsEnd(s[x])})

\* A member name equal to the filter key: same bytes, same length.
IsFilterKey(e) == e.kind = "Key" /\ e.str = keyString_

NoFilterKey(s) == \A i \in 1..Len(s) : ~IsFilterKey(s[i])

\* Index of the last event of the value whose first event is s[i];
\* Len(s) + 1 when that value is not complete in s.
ValueEnd(s, i) ==
    LET base == Nesting(s, i - 1)
        ends == {j \in i..Len(s) : Nesting(s, j) = base}
    IN  IF ends = {} THEN Len(s) + 1
        ELSE CHOOSE j \in ends : \A x \in ends : j <= x

\* Indices of the events that belong to a removed member: a Key equal to the
\* filter key and the value after it.
Removed(s) ==
    UNION {k..ValueEnd(s, k + 1) \cap 1..Len(s) : k \in {x \in 1..Len(s) : IsFilterKey(s[x])}}

\* A removed value is still open at the end of s.
Suppressing(s) ==
    \E k \in 1..Len(s) : IsFilterKey(s[k]) /\ ValueEnd(s, k + 1) > Len(s)

\* The StartObject / StartArray that the End event s[j] closes (0 if none).
MatchStart(s, j) ==
    LET starts == {m \in 1..(j - 1) : IsStart(s[m]) /\ Nesting(s, m - 1) = Nesting(s, j)}
    IN  IF starts = {} THEN 0
        ELSE CHOOSE m \in starts : \A x \in starts : x <= m

\* The Key events of the members of the object that s[j] closes (not those
\* of objects nested in it).
OwnKeys(s, j) ==
    {k \in (MatchStart(s, j) + 1)..(j - 1) :
        s[k].kind = "Key" /\ Nesting(s, k) = Nesting(s, j) + 1}

\* s[i] as the reference filter forwards it: an EndObject carries the number
\* of members of its object that remain.
RefEvent(s, i) ==
    IF s[i].kind = "EndObject"
    THEN Ev("EndObject", s[i].str,
            Cardinality({k \in OwnKeys(s, i) : ~IsFilterKey(s[k])}))
    ELSE s[i]

RECURSIVE RefFrom(_, _, _)
RefFrom(s, i, rem) ==
    IF i > Len(s) THEN <<>>
    ELSE (IF i \in rem THEN <<>> ELSE <<RefEvent(s, i)>>) \o RefFrom(s, i + 1, rem)

RefFilter(s) == RefFrom(s, 1, Removed(s))

\* Position in the output of the input event s[j] (not removed).
OutIdx(s, j) == Cardinality({x \in 1..j : x \notin Removed(s)})

\* The open containers after the events s[i..], read as a document:
\* "K" an object where a member name is due, "V" an object where a member
\* value is due, "A" an array; <<"bad">> when an event is out of place.
RECURSIVE Scan(_, _, _)
Scan(s, i, st) ==
    IF i > Len(s) THEN st
    ELSE LET e == s[i]
             top == IF st = <<>> THEN "root" ELSE st[Len(st)]
             valueDue == IF st = <<>> THEN i = 1 ELSE top \in {"V", "A"}
             pop == SubSeq(st, 1, Len(st) - 1)
             done(t) == IF t # <<>> /\ t[Len(t)] = "V"
                        THEN [t EXCEPT ![Len(t)] = "K"] ELSE t
         IN  CASE e.kind = "StartObject" ->
                    IF valueDue THEN Scan(s, i + 1, Append(st, "K")) ELSE <<"bad">>
               [] e.kind = "StartArray" ->
                    IF valueDue THEN Scan(s, i + 1, Append(st, "A")) ELSE <<"bad">>
               [] e.kind = "Key" ->
                    IF top = "K" THEN Scan(s, i + 1, [st EXCEPT ![Len(st)] = "V"])
                    ELSE <<"bad">>
               [] e.kind = "EndObject" ->
                    IF top = "K" THEN Scan(s, i + 1, done(pop)) ELSE <<"bad">>
               [] e.kind = "EndArray" ->
                    IF top = "A" THEN Scan(s, i + 1, done(pop)) ELSE <<"bad">>
               [] OTHER ->
                    IF valueDue THEN Scan(s, i + 1, done(st)) ELSE <<"bad">>

\* s is one complete document: one root value, every container closed.
WellFormedDoc(s) == s # <<>> /\ Scan(s, 1, <<>>) = <<>>

\* ----------------------------------------------------------------- claims

\* C1: the events forwarded to the consumer are the reference filter of the
\* input: the input in order, without the members named keyString_ (Key and
\* value), each EndObject carrying its object's remaining member count.
C1_ReferenceFilter == output = RefFilter(input)

\* A finished pass that removed a member of an object which kept another.
C1_Witness ==
    /\ parseResult_ = "ok"
    /\ \E i \in 1..Len(input) : IsFilterKey(input[i])
    /\ \E j \in 1..Len(output) : output[j].kind = "EndObject" /\ output[j].n = 1
    /\ Len(output) < Len(input)

\* C2: with no Key equal to the filter key in the input, the forwarded stream
\* is the input stream: same events, order, payloads and counts.
C2_Identity == NoFilterKey(input) => output = input

\* A finished pass over a document with a member, an object count and an
\* array count, none named keyString_.
C2_Witness ==
    /\ parseResult_ = "ok"
    /\ NoFilterKey(input)
    /\ \E i \in 1..Len(input) : input[i].kind = "EndObject" /\ input[i].n = 1
    /\ \E i \in 1..Len(input) : input[i].kind = "EndArray" /\ input[i].n = 2

\* C3: a call on the consumer is made only while filterValueDepth_ is 0, and
\* leaves it 0.
C3_ForwardOnlyAtDepthZero ==
    [][output' # output => (filterValueDepth_ = 0 /\ filterValueDepth_' = 0)]_vars

\* An event forwarded after a suppressed value has ended.
C3_Witness ==
    /\ last.fwd
    /\ filterValueDepth_ = 0
    /\ Removed(input) # {}
    /\ Len(input) \notin Removed(input)

\* C4: the member count of every forwarded EndObject is the number of Key
\* events forwarded for that object's own members.
C4_MemberCount ==
    \A j \in 1..Len(output) :
        output[j].kind = "EndObject" =>
            output[j].n = Cardinality(OwnKeys(output, j))

\* An object forwarded with fewer members than the Reader counted, and at
\* least one.
C4_Witness ==
    \E j \in 1..Len(input) :
        /\ input[j].kind = "EndObject"
        /\ j \notin Removed(input)
        /\ OutIdx(input, j) <= Len(output)
        /\ output[OutIdx(input, j)].n >= 1
        /\ output[OutIdx(input, j)].n < input[j].n

\* C5: filterValueDepth_ is above 0 exactly while the value of an outermost
\* matched member is incomplete, whatever its nesting; a Key equal to the
\* filter key inside that value changes neither the depth, nor the counter
\* stack, nor the output; and the next sibling Key is forwarded.
C5_NestedMatch ==
    /\ [](filterValueDepth_ > 0 <=> Suppressing(input))
    /\ []((/\ input # <<>>
           /\ input[Len(input)].kind = "Key"
           /\ ~IsFilterKey(input[Len(input)])
           /\ ~Suppressing(input))
          => (output # <<>> /\ output[Len(output)] = input[Len(input)]))
    /\ [][(/\ filterValueDepth_ > 0
           /\ Len(input') = Len(input) + 1
           /\ IsFilterKey(input'[Len(input')]))
          => (/\ filterValueDepth_' = filterValueDepth_
              /\ filteredKeyCount_' = filteredKeyCount_
              /\ output' = output)]_vars

\* A matched member whose container value holds another member of the same
\* name has ended, and the sibling Key after it has just been forwarded.
C5_Witness ==
    /\ filterValueDepth_ = 0
    /\ last.fwd
    /\ input[Len(input)].kind = "Key"
    /\ \E k1, k2 \in 1..Len(input) :
          /\ k1 < k2
          /\ IsFilterKey(input[k1])
          /\ IsFilterKey(input[k2])
          /\ k2 < ValueEnd(input, k1 + 1)
          /\ ValueEnd(input, k1 + 1) = Len(input) - 1

\* C6: an object left in the output keeps the Reader's member count minus
\* the number of its own members named keyString_ (members suppressed in
\* other objects never count); when all its members are so named it is
\* forwarded as StartObject immediately followed by EndObject(0).
C6_EmptiedObjects ==
    \A j \in 1..Len(input) :
        (input[j].kind = "EndObject" /\ j \notin Removed(input)) =>
            LET o == OutIdx(input, j)
                own == OwnKeys(input, j)
                gone == {k \in own : IsFilterKey(input[k])}
            IN  /\ o <= Len(output)
                /\ output[o].kind = "EndObject"
                /\ output[o].n = input[j].n - Cardinality(gone)
                /\ (gone = own) =>
                      (/\ output[o].n = 0
                       /\ o > 1
                       /\ output[o - 1].kind = "StartObject")

\* Two sibling objects of one array: the first had its only member
\* suppressed and was forwarded empty, the second kept its member.
C6_Witness ==
    \E i, j \in 1..Len(input) :
        /\ i < j
        /\ input[i].kind = "EndObject"
        /\ input[j].kind = "EndObject"
        /\ MatchStart(input, j) = i + 1
        /\ input[i].n = 1
        /\ input[j].n = 1
        /\ input[MatchStart(input, i) - 1].kind = "StartArray"
        /\ output[OutIdx(input, i)].n = 0
        /\ output[OutIdx(input, j)].n = 1

\* C7: once the consumer has returned false, the handler call returned false,
\* the pass is terminated, and no further call is made on the consumer.
C7_AbortPropagation ==
    /\ [](rejected => (~last.ret /\ parseResult_ = "terminated"))
    /\ [][rejected => output' = output]_vars

\* The consumer rejected an event forwarded after a suppressed member.
C7_Witness ==
    /\ rejected
    /\ Removed(input) # {}
    /\ Len(output) >= 2

\* C8: a handler call returns false exactly when it forwarded its event and
\* the consumer returned false; a swallowed event returns true.
C8_NoOwnFailure == ~last.ret <=> (last.fwd /\ ~last.ok)

\* An event swallowed inside a container of a suppressed value.
C8_Witness ==
    /\ ~last.fwd
    /\ last.ret
    /\ filterValueDepth_ >= 2
    /\ IsScalar(input[Len(input)])

\* C9: when a pass ends ok, the forwarded stream is one complete document.
C9_OutputWellFormed == parseResult_ = "ok" => WellFormedDoc(output)

\* A finished pass whose suppressed value was an array inside an object that
\* kept another member.
C9_Witness ==
    /\ parseResult_ = "ok"
    /\ \E k \in 1..Len(input) :
          IsFilterKey(input[k]) /\ input[k + 1].kind = "StartArray"
    /\ \E j \in 1..Len(output) : output[j].kind = "Key"

\* C10: for a document with no member named keyString_, a second pass over
\* the forwarded stream forwards that same stream.
C10_Idempotent ==
    (parseResult_ = "ok" /\ NoFilterKey(input)) => Filter(output) = output

\* A finished pass over a document with a member and an array of two
\* elements, none named keyString_.
C10_Witness ==
    /\ parseResult_ = "ok"
    /\ NoFilterKey(input)
    /\ \E i \in 1..Len(output) : output[i].kind = "Key"
    /\ \E i \in 1..Len(output) : output[i].kind = "EndArray" /\ output[i].n = 2
    /\ Filter(output) = output

\* The StartObject events of s that were forwarded and whose object is still
\* open at the end of s.
OpenForwardedObjects(s) ==
    {m \in 1..Len(s) :
        /\ s[m].kind = "StartObject"
        /\ m \notin Removed(s)
        /\ \A j \in m..Len(s) : Nesting(s, j) > Nesting(s, m - 1)}

\* This step delivers an event of one of the kinds ks to the handler.
Delivers(ks) ==
    /\ Len(input') = Len(input) + 1
    /\ input'[Len(input')].kind \in ks

\* C11: between events the counter stack has one entry per object whose
\* StartObject was forwarded and whose EndObject has not been processed; a
\* StartObject processed while filterValueDepth_ > 0 pushes nothing.
C11_StackDepth ==
    /\ [](Len(filteredKeyCount_) = Cardinality(OpenForwardedObjects(input)))
    /\ [][(filterValueDepth_ > 0 /\ Delivers({"StartObject"}))
          => filteredKeyCount_' = filteredKeyCount_]_vars

\* Two forwarded objects are open and an object has just been opened inside
\* a suppressed value.
C11_Witness ==
    /\ Len(filteredKeyCount_) = 2
    /\ filterValueDepth_ = 2
    /\ input[Len(input)].kind = "StartObject"

\* C12 as stated: filterValueDepth_ decreases only on an EndObject or
\* EndArray processed while it is above 0.
C12_OnlyEndsDecrease ==
    [][filterValueDepth_' < filterValueDepth_
       => (filterValueDepth_ > 0 /\ Delivers({"EndObject", "EndArray"}))]_vars

\* C12 amended: filterValueDepth_ decreases only on an EndObject or EndArray
\* processed while it is above 0, or on a scalar processed while it is
\* exactly 1 (1 -> 0); Key, StartObject and StartArray never lower it.
C12_EndsOrScalarAtOneDecrease ==
    [][filterValueDepth_' < filterValueDepth_
       => \/ (filterValueDepth_ > 0 /\ Delivers({"EndObject", "EndArray"}))
          \/ (/\ filterValueDepth_ = 1
              /\ filterValueDepth_' = 0
              /\ Delivers(ScalarKinds))]_vars

\* A scalar that is the whole value of a matched member has just taken the
\* depth from 1 to 0.
C12_Witness ==
    /\ filterValueDepth_ = 0
    /\ Len(input) >= 2
    /\ IsScalar(input[Len(input)])
    /\ IsFilterKey(input[Len(input) - 1])

\* The matched Key of the removed value that is open at the end of s
\* (0 if none): the first Key equal to the filter key whose value is
\* incomplete.
OpenMatch(s) ==
    LET ks == {k \in 1..Len(s) : IsFilterKey(s[k]) /\ ValueEnd(s, k + 1) > Len(s)}
    IN  IF ks = {} THEN 0 ELSE CHOOSE k \in ks : \A x \in ks : k <= x

\* C13: filterValueDepth_ increases only by 1 on a StartObject or StartArray
\* processed while it is above 0, or from 0 to 1 on a Key equal to the filter
\* key; and while it is above 0, filterValueDepth_ - 1 is the number of
\* containers opened since the matched Key and not yet closed.
C13_DepthCountsContainers ==
    /\ [](filterValueDepth_ > 0 =>
            /\ OpenMatch(input) > 0
            /\ filterValueDepth_ - 1 =
                  Nesting(input, Len(input)) - Nesting(input, OpenMatch(input)))
    /\ [][filterValueDepth_' > filterValueDepth_
          => \/ (/\ filterValueDepth_ > 0
                 /\ filterValueDepth_' = filterValueDepth_ + 1
                 /\ Delivers({"StartObject", "StartArray"}))
             \/ (/\ filterValueDepth_ = 0
                 /\ filterValueDepth_' = 1
                 /\ Delivers({"Key"})
                 /\ IsFilterKey(input'[Len(input')]))]_vars

\* Two containers are open inside a suppressed value.
C13_Witness ==
    /\ filterValueDepth_ = 3
    /\ IsScalar(input[Len(input)])

\* The first events of the element values of the array that s[j] closes.
Elements(s, j) ==
    {k \in (MatchStart(s, j) + 1)..(j - 1) :
        /\ s[k].kind \notin {"Key", "EndObject", "EndArray"}
        /\ Nesting(s, k - 1) = Nesting(s, j) + 1}

\* C14: a forwarded EndArray is the Reader's EndArray, count unmodified, and
\* that count is the number of element values forwarded directly inside the
\* array.
C14_ArrayCount ==
    \A j \in 1..Len(input) :
        (input[j].kind = "EndArray" /\ j \notin Removed(input)) =>
            LET o == OutIdx(input, j)
            IN  /\ o <= Len(output)
                /\ output[o] = input[j]
                /\ output[o].n = Cardinality(Elements(output, o))

\* A forwarded array of two elements, one of them an object that lost a
\* member.
C14_Witness ==
    \E j \in 1..Len(input) :
        /\ input[j].kind = "EndArray"
        /\ j \notin Removed(input)
        /\ input[j].n = 2
        /\ \E k \in MatchStart(input, j)..j : k \in Removed(input)
        /\ output[OutIdx(input, j)].n = 2

\* C15: the step in which the consumer rejects a forwarded event keeps the
\* state change made before the forward (StartObject: a zero counter pushed;
\* Key: the top counter incremented; EndObject: the top entry popped;
\* otherwise none), returns false, and leaves filterValueDepth_ at 0.
C15_NoUnwind ==
    [][(rejected' /\ ~rejected) =>
          LET e == input'[Len(input')]
              n == Len(filteredKeyCount_)
          IN  /\ filterValueDepth_ = 0
              /\ filterValueDepth_' = 0
              /\ ~last'.ret
              /\ filteredKeyCount_' =
                    CASE e.kind = "StartObject" -> Append(filteredKeyCount_, 0)
                      [] e.kind = "Key" ->
                           [filteredKeyCount_ EXCEPT ![n] = @ + 1]
                      [] e.kind = "EndObject" -> SubSeq(filteredKeyCount_, 1, n - 1)
                      [] OTHER -> filteredKeyCount_]_vars

\* The consumer rejected the second member name of an object whose first
\* member was suppressed: the member is counted all the same.
C15_Witness ==
    /\ rejected
    /\ input[Len(input)].kind = "Key"
    /\ Removed(input) # {}
    /\ filteredKeyCount_[Len(filteredKeyCount_)] = 1
    /\ filterValueDepth_ = 0

\* C16: no forwarded Key equals the filter key (same length, same bytes),
\* and a second sink with the same key run over the forwarded stream
\* forwards it unchanged.
C16_NoFilterKeyForwarded ==
    /\ \A j \in 1..Len(output) :
          output[j].kind = "Key" =>
              (Len(output[j].str) # Len(keyString_)
               \/ \E i \in 1..Len(keyString_) : output[j].str[i] # keyString_[i])
    /\ Filter(output) = output

\* A finished pass that removed a member of an object inside an array and
\* forwarded another member name.
C16_Witness ==
    /\ parseResult_ = "ok"
    /\ \E k \in 1..Len(input) :
          IsFilterKey(input[k]) /\ Nesting(input, k) >= 2
    /\ \E j \in 1..Len(output) : output[j].kind = "Key"
    /\ output[1].kind = "StartArray"

\* C17: a step leaves filterValueDepth_ at 1 only if it started at 0 and
\* delivered a Key equal to the filter key; after any other event the depth
\* is 0 or at least 2.
C17_DepthOneOnlyAfterMatch ==
    [][filterValueDepth_' = 1 =>
          /\ filterValueDepth_ = 0
          /\ Delivers({"Key"})
          /\ IsFilterKey(input'[Len(input')])]_vars

\* A suppressed EndArray took the depth from 2 through 1 to 0 in one event.
C17_Witness ==
    /\ input # <<>>
    /\ filterValueDepth_ = 0
    /\ input[Len(input)].kind = "EndArray"
    /\ Len(input) \in Removed(input)

\* C18: a pass starts with depth 0 and an empty counter stack (Init); once
\* the Reader has delivered a complete document and the consumer rejected
\* nothing, the pass has ended ok with depth 0 and an empty counter stack;
\* and the EndObject of every object whose StartObject was forwarded finds
\* the depth at 0 and is forwarded.
C18_PassEndsClean ==
    /\ []((WellFormedDoc(input) /\ ~rejected) =>
            (/\ parseResult_ = "ok"
             /\ filterValueDepth_ = 0
             /\ filteredKeyCount_ = <<>>))
    /\ [][(/\ Delivers({"EndObject"})
           /\ MatchStart(input', Len(input')) \notin Removed(input'))
          => (/\ filterValueDepth_ = 0
              /\ Len(output') = Len(output) + 1
              /\ output'[Len(output')].kind = "EndObject")]_vars

\* A finished pass over an object one of whose members, a container holding
\* another container, was suppressed.
C18_Witness ==
    /\ parseResult_ = "ok"
    /\ input[1].kind = "StartObject"
    /\ \E k \in 1..Len(input) :
          /\ IsFilterKey(input[k])
          /\ Nesting(input, k) = 1
          /\ IsStart(input[k + 1])
          /\ IsStart(input[k + 2])

\* C19: for a complete document and any two filter keys, a sink for the
\* first wrapping a sink for the second makes the same calls on the final
\* consumer, EndObject counts included, as a sink for the second wrapping a
\* sink for the first.
C19_ChainCommutes ==
    WellFormedDoc(input) =>
        \A pair \in ChainPairs :
            Chain(pair[1], pair[2], input) = Chain(pair[2], pair[1], input)

\* A finished document in which a member named "coordinates" lies inside
\* the value of a member named "coordinate", and the two chained sinks
\* forward less than the sink for "coordinates" alone.
C19_Witness ==
    /\ parseResult_ = "ok"
    /\ \E a, b \in 1..Len(input) :
          /\ a < b
          /\ input[a].kind = "Key"
          /\ ~IsFilterKey(input[a])
          /\ IsFilterKey(input[b])
          /\ b < ValueEnd(input, a + 1)
    /\ Len(Chain(keyString_, SubSeq(keyString_, 1, 10), input)) < Len(output)
    /\ Len(Chain(keyString_, SubSeq(keyString_, 1, 10), input)) >= 4

====
